---- MODULE Spec2Model ----
(***************************************************************************)
(* Model of the YouTube transcript cache service (src/app/main.py).        *)
(*                                                                         *)
(* The service answers GET /transcript from a Postgres table, and on a     *)
(* miss (or force=true) throttles, fetches the transcript upstream, hashes *)
(* it and upserts it.  POST /cleanup deletes old rows.  FastAPI runs the   *)
(* synchronous endpoints in a thread pool, so several requests execute the *)
(* code below concurrently and share the module global _last_yt_call_ts    *)
(* and the table.                                                          *)
(*                                                                         *)
(* Python strings are modelled as sequences of one-character strings, so   *)
(* that strip(), lower() and join() are computed, not assumed.             *)
(***************************************************************************)
EXTENDS Integers, Sequences, FiniteSets, TLC

\* ---------------------------------------------------------------- bounds
\* number of request threads running transcript() concurrently
NumRequests == 2
\* number of one-second steps the clock may take
MaxTicks == 2

\* ------------------------------------------------------------- constants
\* YT_MIN_INTERVAL_SECONDS, read from the environment: the service is
\* modelled as configured with YT_MIN_INTERVAL_SECONDS=2
YT_MIN_INTERVAL_SECONDS == 2
\* length in seconds of the Postgres interval '1 days'
SECONDS_PER_DAY == 86400

\* --------------------------------------------------------------- strings
S_text == <<"t", "e", "x", "t">>
S_TEXT_sp == <<" ", "T", "e", "x", "t">>
S_srt == <<"s", "r", "t">>
S_pl == <<"p", "l">>
S_en == <<"e", "n">>
S_en_sp == <<"e", "n", " ">>
S_blank == <<" ">>
S_x == <<"x">>
S_y == <<"y">>

\* str.isspace() for the characters of the model's alphabet
IsSpace(c) == c \in {" ", "\n"}

RECURSIVE LStrip(_)
LStrip(s) == IF s # <<>> /\ IsSpace(Head(s)) THEN LStrip(Tail(s)) ELSE s

RECURSIVE RStrip(_)
RStrip(s) ==
  IF s # <<>> /\ IsSpace(s[Len(s)]) THEN RStrip(SubSeq(s, 1, Len(s) - 1)) ELSE s

\* str.strip()
Strip(s) == RStrip(LStrip(s))

\* str.lower() on one character of the model's alphabet
LowerChar(c) == IF c = "T" THEN "t" ELSE c

\* str.lower()
Lower(s) == [i \in 1..Len(s) |-> LowerChar(s[i])]

\* sep.join(parts)
RECURSIVE Join(_, _)
Join(parts, sep) ==
  IF parts = <<>> THEN <<>>
  ELSE IF Len(parts) = 1 THEN parts[1]
  ELSE parts[1] \o sep \o Join(Tail(parts), sep)

\* the elements of a sequence
Range(s) == {s[i] : i \in 1..Len(s)}

\* ---------------------------------------------------------------- helpers
\* mutant: the `if l not in seen` test is missing
RECURSIVE CleanLoop_NoDedup(_, _)
CleanLoop_NoDedup(languages, cleaned) ==
  IF languages = <<>> THEN cleaned
  ELSE LET l == Strip(Head(languages))
       IN IF l = <<>> THEN CleanLoop_NoDedup(Tail(languages), cleaned)
          ELSE CleanLoop_NoDedup(Tail(languages), Append(cleaned, l))

\* the for loop of normalize_languages: `seen` always holds exactly the
\* elements of `cleaned`
RECURSIVE CleanLoop(_, _)
CleanLoop(languages, cleaned) ==
  IF languages = <<>> THEN cleaned
  ELSE LET l == Strip(Head(languages))
       IN IF l = <<>> THEN CleanLoop(Tail(languages), cleaned)
          ELSE IF l \notin Range(cleaned)
               THEN CleanLoop(Tail(languages), Append(cleaned, l))
               ELSE CleanLoop(Tail(languages), cleaned)

DefaultLanguages == <<S_pl, S_en>>

\* mutant: the default is substituted when the argument is empty, not when
\* the cleaned list is
normalize_languages_DefaultOnEmptyArg(languages) ==
  LET c0 == CleanLoop(languages, <<>>)
      cleaned == IF languages = <<>> THEN DefaultLanguages ELSE c0
  IN [cleaned |-> cleaned, key |-> Join(cleaned, <<",">>)]

normalize_languages(languages) ==
  LET c0 == CleanLoop(languages, <<>>)
      cleaned == IF c0 = <<>> THEN DefaultLanguages ELSE c0
  IN [cleaned |-> cleaned, key |-> Join(cleaned, <<",">>)]

\* hashlib.sha256(text.encode("utf-8")).hexdigest(): an ideal hash, a
\* deterministic value that differs from the text and is distinct for
\* distinct texts
sha256_text(text) == <<"sha256", text>>

\* "\n".join([snip.text for snip in fetched]).strip()
JoinSnippets(fetched) == Strip(Join(fetched, <<"\n">>))

\* ----------------------------------------------------------------- inputs
Requests == 1..NumRequests
Videos == {"v1"}
LanguageLists == { <<>>, <<S_blank, S_pl, S_en, S_pl>>, <<S_en, S_en_sp>> }
Formats == {S_text, S_TEXT_sp, S_srt}
KeepDays == {0, 1}

\* what ytt_api.fetch can do: raise one of the library's errors, or return
\* an iterable of snippets
UpstreamCauses == {"rate_limited", "blocked", "no_transcript", "disabled", "unplayable"}
SnippetLists == { <<>>, <<S_blank>>, <<S_x>>, <<S_x, S_y>> }
UpstreamResults ==
  [ok : {FALSE}, cause : UpstreamCauses] \cup [ok : {TRUE}, snippets : SnippetLists]

None == "None"

\* a string local that is not assigned yet
Unset == <<>>

\* no result of normalize_languages yet
NoNorm == [cleaned |-> <<>>, key |-> <<>>]

\* no response yet
NoResponse == [status |-> 0]

VARIABLES
  clock,              \* wall clock, seconds (time.time() and Postgres now())
  last_yt_call_ts,    \* the module global _last_yt_call_ts
  transcript_cache,   \* the rows of table transcript_cache
  pc,                 \* per request: where the thread is in transcript()
  video, force,       \* per request: the endpoint's arguments video, force
  langs, langs_key, fmt,             \* per request: locals of transcript()
  now, wait, wake,    \* per request: locals of yt_throttle, end of its sleep
  content, h,         \* per request: locals of transcript()
  tx_now,             \* per request: now() of its upsert statement
  response,           \* per request: what the caller receives
  yt_calls,           \* log: the upstream calls started, [rid, at, res]
  n_get, n_throttle, n_fetch, n_upsert,  \* log: per request, calls made
  cleanup_response,   \* what the last POST /cleanup returned
  db_errors,          \* log: the store calls that raised, [rid, op]
  nl_pc, nl_input, nl_result, nl_again  \* normalize_languages on its own

vars == <<clock, last_yt_call_ts, transcript_cache, pc, video, force, langs,
          langs_key, fmt, now, wait, wake, content, h, tx_now, response,
          yt_calls, n_get, n_throttle, n_fetch, n_upsert, cleanup_response,
          db_errors, nl_pc, nl_input, nl_result, nl_again>>

reqInputs == <<video, force, langs, langs_key, fmt>>
throttleLocals == <<now, wait, wake>>
logs == <<yt_calls, n_get, n_throttle, n_fetch, n_upsert>>
normVars == <<nl_pc, nl_input, nl_result, nl_again>>

\* the row of the table with the given primary key, as cur.fetchone() sees it
RowsOf(v, k, f) ==
  {row \in transcript_cache :
     row.video_id = v /\ row.languages_key = k /\ row.format = f}

\* the requests: none has started
InitRequests ==
  /\ pc = [r \in Requests |-> "idle"]
  /\ video = [r \in Requests |-> None]
  /\ force = [r \in Requests |-> FALSE]
  /\ langs = [r \in Requests |-> Unset]
  /\ langs_key = [r \in Requests |-> Unset]
  /\ fmt = [r \in Requests |-> Unset]
  /\ now = [r \in Requests |-> None]
  /\ wait = [r \in Requests |-> None]
  /\ wake = [r \in Requests |-> None]
  /\ content = [r \in Requests |-> Unset]
  /\ h = [r \in Requests |-> Unset]
  /\ tx_now = [r \in Requests |-> None]
  /\ response = [r \in Requests |-> NoResponse]
  /\ yt_calls = {}
  /\ n_get = [r \in Requests |-> 0]
  /\ n_throttle = [r \in Requests |-> 0]
  /\ n_fetch = [r \in Requests |-> 0]
  /\ n_upsert = [r \in Requests |-> 0]
  /\ db_errors = {}

\* normalize_languages is not run on its own
InitNormOff ==
  /\ nl_pc = "off"
  /\ nl_input = <<>>
  /\ nl_result = NoNorm
  /\ nl_again = NoNorm

\* the process has just started on a new database: _last_yt_call_ts = 0.0,
\* the table created by startup() is empty, and the clock is past the epoch
\* by more than the interval
Init ==
  /\ clock = YT_MIN_INTERVAL_SECONDS + 1
  /\ last_yt_call_ts = 0
  /\ transcript_cache = {}
  /\ cleanup_response = NoResponse
  /\ InitRequests
  /\ InitNormOff


\* ------------------------------------------------------ transcript(), start
\* mutant: the format test is dropped
FormatSupported_Any(f) == TRUE

\* the test `fmt != "text"` of transcript()
FormatSupported(f) == f = S_text

\* mutant: the store is looked up also when force is set
ShouldLookup_Always(fo) == TRUE

\* the test `if not force` of transcript()
ShouldLookup(fo) == ~fo

\* transcript() up to its first call that leaves the thread: normalises the
\* arguments and rejects an unsupported format
StartRequest(r, v, ls, f, fo) ==
  /\ pc[r] = "idle"
  /\ video' = [video EXCEPT ![r] = v]
  /\ force' = [force EXCEPT ![r] = fo]
  /\ langs' = [langs EXCEPT ![r] = normalize_languages(ls).cleaned]
  /\ langs_key' = [langs_key EXCEPT ![r] = normalize_languages(ls).key]
  /\ fmt' = [fmt EXCEPT ![r] = Lower(Strip(f))]
  /\ IF ~FormatSupported(Lower(Strip(f)))
     THEN /\ response' = [response EXCEPT ![r] = [status |-> 400]]
          /\ pc' = [pc EXCEPT ![r] = "done"]
     ELSE /\ response' = response
          /\ pc' = [pc EXCEPT ![r] = IF ShouldLookup(fo) THEN "db_get" ELSE "yt_now"]
  /\ UNCHANGED <<clock, last_yt_call_ts, transcript_cache, throttleLocals,
                 content, h, logs, cleanup_response>>
  /\ UNCHANGED <<tx_now, db_errors, normVars>>

\* ------------------------------------------------------- db_get_transcript
\* the dict transcript() returns on a cache hit
HitResponse(r, row) ==
  [status |-> 200, videoId |-> video[r], languages |-> langs[r],
   languages_key |-> langs_key[r], format |-> fmt[r], cached |-> TRUE,
   transcript_hash |-> row.transcript_hash, fetched_at |-> row.fetched_at,
   content |-> row.content]

\* mutant: the hit is logged but not returned, the request goes on to fetch
DbGet_FallsThrough(r) ==
  /\ pc[r] = "db_get"
  /\ n_get' = [n_get EXCEPT ![r] = @ + 1]
  /\ pc' = [pc EXCEPT ![r] = "yt_now"]
  /\ UNCHANGED <<clock, last_yt_call_ts, transcript_cache, reqInputs,
                 throttleLocals, content, h, response, yt_calls, n_throttle,
                 n_fetch, n_upsert, cleanup_response>>
  /\ UNCHANGED <<tx_now, db_errors, normVars>>

\* db_get_transcript and the `if cached` branch of transcript()
DbGet(r) ==
  /\ pc[r] = "db_get"
  /\ n_get' = [n_get EXCEPT ![r] = @ + 1]
  /\ LET rows == RowsOf(video[r], langs_key[r], fmt[r])
     IN IF rows # {}
        THEN /\ \E row \in rows :
                  response' = [response EXCEPT ![r] = HitResponse(r, row)]
             /\ pc' = [pc EXCEPT ![r] = "done"]
        ELSE /\ response' = response
             /\ pc' = [pc EXCEPT ![r] = "yt_now"]
  /\ UNCHANGED <<clock, last_yt_call_ts, transcript_cache, reqInputs,
                 throttleLocals, content, h, yt_calls, n_throttle, n_fetch,
                 n_upsert, cleanup_response>>
  /\ UNCHANGED <<tx_now, db_errors, normVars>>

\* mutant: the exception is caught and the lookup counts as a miss
DbGetFails_AsMiss(r) ==
  /\ pc[r] = "db_get"
  /\ n_get' = [n_get EXCEPT ![r] = @ + 1]
  /\ db_errors' = db_errors \cup {[rid |-> r, op |-> "get"]}
  /\ pc' = [pc EXCEPT ![r] = "yt_now"]
  /\ UNCHANGED <<clock, last_yt_call_ts, transcript_cache, reqInputs,
                 throttleLocals, content, h, response, yt_calls, n_throttle,
                 n_fetch, n_upsert, cleanup_response>>
  /\ UNCHANGED <<tx_now, normVars>>

\* pool.connection() / cur.execute raise in db_get_transcript: the exception
\* leaves transcript() and the middleware answers 500
DbGetFails(r) ==
  /\ pc[r] = "db_get"
  /\ n_get' = [n_get EXCEPT ![r] = @ + 1]
  /\ db_errors' = db_errors \cup {[rid |-> r, op |-> "get"]}
  /\ response' = [response EXCEPT ![r] = [status |-> 500]]
  /\ pc' = [pc EXCEPT ![r] = "done"]
  /\ UNCHANGED <<clock, last_yt_call_ts, transcript_cache, reqInputs,
                 throttleLocals, content, h, yt_calls, n_throttle, n_fetch,
                 n_upsert, cleanup_response>>
  /\ UNCHANGED <<tx_now, normVars>>

\* -------------------------------------------------------------- yt_throttle
\* `now = time.time()`
ThrottleReadNow(r) ==
  /\ pc[r] = "yt_now"
  /\ now' = [now EXCEPT ![r] = clock]
  /\ n_throttle' = [n_throttle EXCEPT ![r] = @ + 1]
  /\ pc' = [pc EXCEPT ![r] = "yt_wait"]
  /\ UNCHANGED <<clock, last_yt_call_ts, transcript_cache, reqInputs, wait,
                 wake, content, h, response, yt_calls, n_get, n_fetch,
                 n_upsert, cleanup_response>>
  /\ UNCHANGED <<tx_now, db_errors, normVars>>

\* `wait = (_last_yt_call_ts + YT_MIN_INTERVAL_SECONDS) - now`
WaitFor(ts, n) == (ts + YT_MIN_INTERVAL_SECONDS) - n

\* the read of the global, `if wait > 0` and the call of time.sleep(wait)
ThrottleComputeWait(r) ==
  /\ pc[r] = "yt_wait"
  /\ wait' = [wait EXCEPT ![r] = WaitFor(last_yt_call_ts, now[r])]
  /\ IF WaitFor(last_yt_call_ts, now[r]) > 0
     THEN /\ wake' = [wake EXCEPT ![r] = clock + WaitFor(last_yt_call_ts, now[r])]
          /\ pc' = [pc EXCEPT ![r] = "yt_sleep"]
     ELSE /\ wake' = wake
          /\ pc' = [pc EXCEPT ![r] = "yt_write"]
  /\ UNCHANGED <<clock, last_yt_call_ts, transcript_cache, reqInputs, now,
                 content, h, response, logs, cleanup_response>>
  /\ UNCHANGED <<tx_now, db_errors, normVars>>

\* time.sleep(wait) returns, no earlier than `wait` seconds after its call
ThrottleWake(r) ==
  /\ pc[r] = "yt_sleep"
  /\ clock >= wake[r]
  /\ pc' = [pc EXCEPT ![r] = "yt_write"]
  /\ UNCHANGED <<clock, last_yt_call_ts, transcript_cache, reqInputs,
                 throttleLocals, content, h, response, logs, cleanup_response>>
  /\ UNCHANGED <<tx_now, db_errors, normVars>>

\* `_last_yt_call_ts = time.time()` and the return of yt_throttle
ThrottleWrite(r) ==
  /\ pc[r] = "yt_write"
  /\ last_yt_call_ts' = clock
  /\ now' = [now EXCEPT ![r] = None]
  /\ wait' = [wait EXCEPT ![r] = None]
  /\ wake' = [wake EXCEPT ![r] = None]
  /\ pc' = [pc EXCEPT ![r] = "yt_fetch"]
  /\ UNCHANGED <<clock, transcript_cache, reqInputs, content, h, response,
                 logs, cleanup_response>>
  /\ UNCHANGED <<tx_now, db_errors, normVars>>


\* ------------------------------------------- fetch_transcript_from_youtube
\* mutant: `if not text` is missing
FetchRaises_IgnoresEmpty(res) == ~res.ok

\* whether fetch_transcript_from_youtube raises, given what ytt_api.fetch
\* did: the except branch, or `if not text`
FetchRaises(res) ==
  IF ~res.ok THEN TRUE ELSE JoinSnippets(res.snippets) = <<>>

\* mutant: "no transcript" is reported as 404 instead of the coarse 429
FetchError_ByCause(res) ==
  IF ~res.ok
  THEN IF res.cause = "no_transcript" THEN [status |-> 404]
       ELSE [status |-> 429, detail |-> res.cause]
  ELSE [status |-> 404]

\* the HTTPException it raises then
FetchError(res) ==
  IF ~res.ok THEN [status |-> 429, detail |-> res.cause] ELSE [status |-> 404]

\* mutant: a failed or empty fetch is retried once
UpstreamCall_Retry(r, res) ==
  /\ pc[r] = "yt_fetch"
  /\ yt_calls' = yt_calls \cup {[rid |-> r, at |-> clock, res |-> res]}
  /\ n_fetch' = [n_fetch EXCEPT ![r] = @ + 1]
  /\ IF FetchRaises(res)
     THEN /\ IF n_fetch[r] = 0
             THEN UNCHANGED <<response, pc>>
             ELSE /\ response' = [response EXCEPT ![r] = FetchError(res)]
                  /\ pc' = [pc EXCEPT ![r] = "done"]
          /\ UNCHANGED <<content, h>>
     ELSE /\ content' = [content EXCEPT ![r] = JoinSnippets(res.snippets)]
          /\ h' = [h EXCEPT ![r] = sha256_text(JoinSnippets(res.snippets))]
          /\ pc' = [pc EXCEPT ![r] = "db_begin"]
          /\ response' = response
  /\ UNCHANGED <<clock, last_yt_call_ts, transcript_cache, reqInputs,
                 throttleLocals, n_get, n_throttle, n_upsert, cleanup_response>>
  /\ UNCHANGED <<tx_now, db_errors, normVars>>

\* ytt_api.fetch(video_id, languages=languages) starts now; the rest of
\* fetch_transcript_from_youtube and `h = sha256_text(content)` only touch
\* locals of the thread
UpstreamCall(r, res) ==
  /\ pc[r] = "yt_fetch"
  /\ yt_calls' = yt_calls \cup {[rid |-> r, at |-> clock, res |-> res]}
  /\ n_fetch' = [n_fetch EXCEPT ![r] = @ + 1]
  /\ IF FetchRaises(res)
     THEN /\ response' = [response EXCEPT ![r] = FetchError(res)]
          /\ pc' = [pc EXCEPT ![r] = "done"]
          /\ UNCHANGED <<content, h>>
     ELSE /\ content' = [content EXCEPT ![r] = JoinSnippets(res.snippets)]
          /\ h' = [h EXCEPT ![r] = sha256_text(JoinSnippets(res.snippets))]
          /\ pc' = [pc EXCEPT ![r] = "db_begin"]
          /\ response' = response
  /\ UNCHANGED <<clock, last_yt_call_ts, transcript_cache, reqInputs,
                 throttleLocals, n_get, n_throttle, n_upsert, cleanup_response>>
  /\ UNCHANGED <<tx_now, db_errors, normVars>>

\* ---------------------------------------------------- db_upsert_transcript
\* mutant: DO UPDATE sets content and fetched_at but not transcript_hash
UpsertRows_KeepsHash(rows, v, k, f, c, hh, t) ==
  LET conflict == {row \in rows :
                     row.video_id = v /\ row.languages_key = k /\ row.format = f}
  IN IF conflict = {}
     THEN rows \cup {[video_id |-> v, languages_key |-> k, format |-> f,
                      content |-> c, transcript_hash |-> hh, fetched_at |-> t]}
     ELSE (rows \ conflict) \cup
          {[row EXCEPT !.content = c, !.fetched_at = t] : row \in conflict}

\* mutant: a plain INSERT into a table without the primary key
UpsertRows_InsertOnly(rows, v, k, f, c, hh, t) ==
  rows \cup {[video_id |-> v, languages_key |-> k, format |-> f,
              content |-> c, transcript_hash |-> hh, fetched_at |-> t]}

\* the table after INSERT ... ON CONFLICT (video_id, languages_key, format)
\* DO UPDATE SET content, transcript_hash, fetched_at=now(), run at time t
UpsertRows(rows, v, k, f, c, hh, t) ==
  LET conflict == {row \in rows :
                     row.video_id = v /\ row.languages_key = k /\ row.format = f}
  IN IF conflict = {}
     THEN rows \cup {[video_id |-> v, languages_key |-> k, format |-> f,
                      content |-> c, transcript_hash |-> hh, fetched_at |-> t]}
     ELSE (rows \ conflict) \cup
          {[row EXCEPT !.content = c, !.transcript_hash = hh, !.fetched_at = t] :
             row \in conflict}

\* the dict transcript() returns after a fetch
MissResponse(r) ==
  [status |-> 200, videoId |-> video[r], languages |-> langs[r],
   languages_key |-> langs_key[r], format |-> fmt[r], cached |-> FALSE,
   transcript_hash |-> h[r], content |-> content[r]]

\* db_upsert_transcript sends the statement: Postgres starts its transaction
\* and fixes now() for it
DbUpsertBegin(r) ==
  /\ pc[r] = "db_begin"
  /\ n_upsert' = [n_upsert EXCEPT ![r] = @ + 1]
  /\ tx_now' = [tx_now EXCEPT ![r] = clock]
  /\ pc' = [pc EXCEPT ![r] = "db_upsert"]
  /\ UNCHANGED <<clock, last_yt_call_ts, transcript_cache, reqInputs,
                 throttleLocals, content, h, response, yt_calls, n_get,
                 n_throttle, n_fetch, cleanup_response>>
  /\ UNCHANGED <<db_errors, normVars>>

\* mutant: the statement is never committed (pool without autocommit)
DbUpsert_NoCommit(r) ==
  /\ pc[r] = "db_upsert"
  /\ tx_now' = [tx_now EXCEPT ![r] = None]
  /\ response' = [response EXCEPT ![r] = MissResponse(r)]
  /\ pc' = [pc EXCEPT ![r] = "done"]
  /\ UNCHANGED <<clock, last_yt_call_ts, transcript_cache, reqInputs,
                 throttleLocals, content, h, logs, cleanup_response>>
  /\ UNCHANGED <<db_errors, normVars>>

\* the statement takes effect and commits (autocommit), with now() being
\* the start time of its transaction; db_upsert_transcript and transcript()
\* return
DbUpsert(r) ==
  /\ pc[r] = "db_upsert"
  /\ transcript_cache' =
       UpsertRows(transcript_cache, video[r], langs_key[r], fmt[r],
                  content[r], h[r], tx_now[r])
  /\ tx_now' = [tx_now EXCEPT ![r] = None]
  /\ response' = [response EXCEPT ![r] = MissResponse(r)]
  /\ pc' = [pc EXCEPT ![r] = "done"]
  /\ UNCHANGED <<clock, last_yt_call_ts, reqInputs, throttleLocals, content, h,
                 logs, cleanup_response>>
  /\ UNCHANGED <<db_errors, normVars>>

\* pool.connection() / cur.execute raise in db_upsert_transcript: nothing is
\* written and the middleware answers 500
DbUpsertFails(r) ==
  /\ pc[r] = "db_upsert"
  /\ db_errors' = db_errors \cup {[rid |-> r, op |-> "upsert"]}
  /\ tx_now' = [tx_now EXCEPT ![r] = None]
  /\ response' = [response EXCEPT ![r] = [status |-> 500]]
  /\ pc' = [pc EXCEPT ![r] = "done"]
  /\ UNCHANGED <<clock, last_yt_call_ts, transcript_cache, reqInputs,
                 throttleLocals, content, h, logs, cleanup_response>>
  /\ UNCHANGED <<normVars>>

\* ------------------------------------------------------------------ cleanup
\* mutant: the comparison is <= instead of <
Expired_Inclusive(rows, keep_days, t) ==
  {row \in rows : row.fetched_at <= t - keep_days * SECONDS_PER_DAY}

\* the rows matched by `fetched_at < now() - (keep_days || ' days')::interval`
Expired(rows, keep_days, t) ==
  {row \in rows : row.fetched_at < t - keep_days * SECONDS_PER_DAY}

\* POST /cleanup: one autocommitted DELETE, cur.rowcount is returned
Cleanup(keep_days) ==
  /\ transcript_cache' =
       transcript_cache \ Expired(transcript_cache, keep_days, clock)
  /\ cleanup_response' =
       [status |-> "ok", keep_days |-> keep_days,
        deleted |-> Cardinality(Expired(transcript_cache, keep_days, clock))]
  /\ UNCHANGED <<clock, last_yt_call_ts, pc, reqInputs, throttleLocals,
                 content, h, response, logs>>
  /\ UNCHANGED <<tx_now, db_errors, normVars>>

\* -------------------------------------------------------------------- time
StartTime == YT_MIN_INTERVAL_SECONDS + 1

\* a second passes
Tick ==
  /\ clock - StartTime < MaxTicks
  /\ clock' = clock + 1
  /\ UNCHANGED <<last_yt_call_ts, transcript_cache, pc, reqInputs,
                 throttleLocals, content, h, response, logs, cleanup_response>>
  /\ UNCHANGED <<tx_now, db_errors, normVars>>

Next ==
  \/ \E r \in Requests, v \in Videos, ls \in LanguageLists, f \in Formats,
        fo \in BOOLEAN : StartRequest(r, v, ls, f, fo)
  \/ \E r \in Requests : DbGet(r)
  \/ \E r \in Requests : DbGetFails(r)
  \/ \E r \in Requests : ThrottleReadNow(r)
  \/ \E r \in Requests : ThrottleComputeWait(r)
  \/ \E r \in Requests : ThrottleWake(r)
  \/ \E r \in Requests : ThrottleWrite(r)
  \/ \E r \in Requests, res \in UpstreamResults : UpstreamCall(r, res)
  \/ \E r \in Requests : DbUpsertBegin(r)
  \/ \E r \in Requests : DbUpsert(r)
  \/ \E r \in Requests : DbUpsertFails(r)
  \/ \E keep_days \in KeepDays : Cleanup(keep_days)
  \/ Tick

Spec == Init /\ [][Next]_vars

\* ------------------------------------------- normalize_languages on its own
\* longest language list given to normalize_languages
MaxLangs == 3

S_a == <<"a">>
S_sp_a == <<" ", "a">>
S_b == <<"b">>
S_a_comma_b == <<"a", ",", "b">>

\* the strings a caller may put in the list: empty, blank, plain, padded,
\* and one that contains the delimiter
NormStrings == {<<>>, S_blank, S_a, S_sp_a, S_b, S_a_comma_b}

\* the language lists of up to MaxLangs strings
NormInputs == UNION {[1..n -> NormStrings] : n \in 0..MaxLangs}

InitNorm ==
  /\ clock = YT_MIN_INTERVAL_SECONDS + 1
  /\ last_yt_call_ts = 0
  /\ transcript_cache = {}
  /\ cleanup_response = NoResponse
  /\ InitRequests
  /\ nl_pc = "ready"
  /\ nl_input \in NormInputs
  /\ nl_result = NoNorm
  /\ nl_again = NoNorm

\* normalize_languages(languages)
NormApply ==
  /\ nl_pc = "ready"
  /\ nl_result' = normalize_languages(nl_input)
  /\ nl_pc' = "applied"
  /\ UNCHANGED <<clock, last_yt_call_ts, transcript_cache, pc, reqInputs,
                 throttleLocals, content, h, tx_now, response, logs,
                 cleanup_response, db_errors, nl_input, nl_again>>

\* normalize_languages applied to the cleaned list it returned
NormReapply ==
  /\ nl_pc = "applied"
  /\ nl_again' = normalize_languages(nl_result.cleaned)
  /\ nl_pc' = "reapplied"
  /\ UNCHANGED <<clock, last_yt_call_ts, transcript_cache, pc, reqInputs,
                 throttleLocals, content, h, tx_now, response, logs,
                 cleanup_response, db_errors, nl_input, nl_result>>

NextNorm == NormApply \/ NormReapply

SpecNorm == InitNorm /\ [][NextNorm]_vars

\* ------------------------------------------------- cleanup on an aged table
\* number of videos with a row in the aged table
NumPurgeVideos == 3

\* the time of the purge, far enough from the epoch for rows 90 days old
PurgeNow == 100 * SECONDS_PER_DAY

\* ages of the rows, in seconds: 90 days, 60 days and a second, 60 days,
\* 30 days, 1 day
PurgeAges ==
  {90 * SECONDS_PER_DAY, 60 * SECONDS_PER_DAY + 1, 60 * SECONDS_PER_DAY,
   30 * SECONDS_PER_DAY, SECONDS_PER_DAY}

\* keep_days is any int
PurgeKeepDays == {-1, 0, 30, 60}

\* a row as db_upsert_transcript wrote it `age` seconds ago for video n
AgedRow(n, age) ==
  [video_id |-> <<"v", n>>, languages_key |-> normalize_languages(<<>>).key,
   format |-> S_text, content |-> S_x, transcript_hash |-> sha256_text(S_x),
   fetched_at |-> PurgeNow - age]

\* the tables with at most one row per video, each of one of the ages
PurgeTables ==
  {{AgedRow(n, ages[n]) : n \in {m \in 1..NumPurgeVideos : ages[m] # 0}} :
     ages \in [1..NumPurgeVideos -> PurgeAges \cup {0}]}

\* the service has been running for a while: the table holds rows of
\* several ages and no request is in progress
InitPurge ==
  /\ clock = PurgeNow
  /\ last_yt_call_ts = 0
  /\ transcript_cache \in PurgeTables
  /\ cleanup_response = NoResponse
  /\ InitRequests
  /\ InitNormOff

NextPurge == \E keep_days \in PurgeKeepDays : Cleanup(keep_days)

SpecPurge == InitPurge /\ [][NextPurge]_vars


\* ===================================================================== C1
\* the upstream calls a request made
CallsOf(r) == {a \in yt_calls : a.rid = r}

\* C1 (as claimed): the start times of any two upstream calls are at least
\* YT_MIN_INTERVAL_SECONDS apart, whatever the interleaving of the requests.
C1_MinIntervalBetweenCalls ==
  \A a, b \in yt_calls :
    a.rid # b.rid =>
      \/ a.at - b.at >= YT_MIN_INTERVAL_SECONDS
      \/ b.at - a.at >= YT_MIN_INTERVAL_SECONDS

\* ===================================================================== C2
\* request r has read _last_yt_call_ts in yt_throttle and not yet written it
InThrottleSection(r) == pc[r] \in {"yt_sleep", "yt_write"}

\* C2 (as claimed): no two callers of yt_throttle are at the same time
\* between their read of _last_yt_call_ts and their write of it.
C2_ThrottleMutualExclusion ==
  \A r1, r2 \in Requests :
    r1 # r2 => ~(InThrottleSection(r1) /\ InThrottleSection(r2))


\* ============================================================ shared terms
\* request r and row `row` have the same (video id, language key, format)
KeyMatches(r, row) ==
  /\ row.video_id = video[r]
  /\ row.languages_key = langs_key[r]
  /\ row.format = fmt[r]

\* request r completes its store lookup in this step, the store answering
LookupAnswered(r) ==
  /\ pc[r] = "db_get"
  /\ pc'[r] # "db_get"
  /\ response'[r].status # 500

\* request r got `row` back as a cache hit in this step
ReturnsHit(r, row) ==
  /\ pc'[r] = "done"
  /\ response'[r].status = 200
  /\ response'[r].cached = TRUE
  /\ response'[r].content = row.content
  /\ response'[r].transcript_hash = row.transcript_hash

\* request r ended with a freshly fetched transcript
IsMiss(r) == response[r].status = 200 /\ response[r].cached = FALSE

\* request r ended with a cached transcript
IsHit(r) == response[r].status = 200 /\ response[r].cached = TRUE

\* the upstream call request r starts in this step
NewCalls(r) == {a \in yt_calls' \ yt_calls : a.rid = r}

\* ===================================================================== C3
\* C3: a non-forced request with a supported format whose key has a row at
\* lookup time returns that row's content and hash tagged cached=true; it
\* makes no throttle acquisition and no upstream call, and the step leaves
\* _last_yt_call_ts and the table as they were.
C3_HitReturnsEntryWithoutEffects ==
  [][\A r \in Requests :
       (LookupAnswered(r) /\ \E row \in transcript_cache : KeyMatches(r, row))
       => /\ \E row \in transcript_cache : KeyMatches(r, row) /\ ReturnsHit(r, row)
          /\ n_throttle'[r] = 0 /\ n_fetch'[r] = 0 /\ n_upsert'[r] = 0
          /\ CallsOf(r)' = {}
          /\ last_yt_call_ts' = last_yt_call_ts
          /\ transcript_cache' = transcript_cache]_vars

\* a request was answered from the cache after some request had throttled
C3_Witness ==
  \E r \in Requests : IsHit(r) /\ ~force[r] /\ n_get[r] = 1 /\ last_yt_call_ts # 0

\* ===================================================================== C4
\* C4: a request that ends as a miss (cached=false) has invoked upstream
\* exactly once and its row is in the table when it returns; and a
\* non-forced request with the same parameters that looks the key up while
\* that row is still there (no purge, no later write) is a hit that invokes
\* upstream zero times and returns the first request's content and hash.
C4_MissThenHit ==
  [][/\ \A r \in Requests :
          (pc[r] = "db_upsert" /\ pc'[r] = "done" /\ response'[r].status = 200)
          => /\ response'[r].cached = FALSE
             /\ n_fetch'[r] = 1
             /\ Cardinality(CallsOf(r)') = 1
             /\ \E row \in transcript_cache' :
                  /\ KeyMatches(r, row)
                  /\ row.content = response'[r].content
                  /\ row.transcript_hash = response'[r].transcript_hash
     /\ \A r1, r2 \in Requests :
          (/\ r1 # r2
           /\ IsMiss(r1)
           /\ LookupAnswered(r2)
           /\ video[r2] = video[r1] /\ langs_key[r2] = langs_key[r1]
           /\ fmt[r2] = fmt[r1]
           /\ \E row \in transcript_cache :
                /\ KeyMatches(r1, row)
                /\ row.content = response[r1].content
                /\ row.transcript_hash = response[r1].transcript_hash)
          => /\ pc'[r2] = "done"
             /\ response'[r2].status = 200
             /\ response'[r2].cached = TRUE
             /\ response'[r2].content = response[r1].content
             /\ response'[r2].transcript_hash = response[r1].transcript_hash
             /\ n_fetch'[r2] = 0
             /\ CallsOf(r2)' = {}]_vars

\* a non-forced miss on an absent key, then a non-forced hit on the same key
\* with the same content and hash, one upstream call in all
C4_Witness ==
  \E r1, r2 \in Requests :
    /\ r1 # r2
    /\ IsMiss(r1) /\ ~force[r1] /\ n_get[r1] = 1 /\ n_fetch[r1] = 1
    /\ IsHit(r2) /\ ~force[r2] /\ n_fetch[r2] = 0
    /\ video[r2] = video[r1] /\ langs_key[r2] = langs_key[r1] /\ fmt[r2] = fmt[r1]
    /\ response[r2].content = response[r1].content
    /\ response[r2].transcript_hash = response[r1].transcript_hash
    /\ Cardinality(yt_calls) = 1


\* ===================================================================== C5
\* C5: a request with force=true and a supported format never looks the
\* store up and goes straight to the throttle; when it ends it has acquired
\* the throttle once and invoked upstream once; and when its text is
\* non-empty and the store takes the write, the table then holds for its key
\* exactly the row with the new content and its hash, every other row is as
\* it was, and the response is tagged cached=false.
C5_ForceBypassesLookupAndOverwrites ==
  [][\A r \in Requests :
       (force'[r] /\ fmt'[r] = S_text /\ pc'[r] # "idle")
       => /\ n_get'[r] = 0
          /\ pc[r] = "idle" => pc'[r] = "yt_now"
          /\ pc'[r] = "done"
               => /\ n_throttle'[r] = 1
                  /\ n_fetch'[r] = 1
                  /\ Cardinality(CallsOf(r)') = 1
          /\ (pc[r] = "db_upsert" /\ pc'[r] = "done" /\ response'[r].status = 200)
               => /\ response'[r].cached = FALSE
                  /\ response'[r].content = content[r]
                  /\ response'[r].transcript_hash = sha256_text(content[r])
                  /\ \A row \in transcript_cache' :
                       KeyMatches(r, row)
                       => /\ row.content = content[r]
                          /\ row.transcript_hash = sha256_text(content[r])
                  /\ \E row \in transcript_cache' : KeyMatches(r, row)
                  /\ {row \in transcript_cache' : ~KeyMatches(r, row)}
                       = {row \in transcript_cache : ~KeyMatches(r, row)}]_vars

\* a forced request replaced the content another request had stored for
\* the same key (no purge ever ran, and the row holds the forced content)
C5_Witness ==
  \E r1, r2 \in Requests :
    /\ r1 # r2
    /\ cleanup_response = NoResponse
    /\ IsMiss(r1) /\ IsMiss(r2) /\ force[r2] /\ n_get[r2] = 0
    /\ video[r2] = video[r1] /\ langs_key[r2] = langs_key[r1] /\ fmt[r2] = fmt[r1]
    /\ response[r1].content # response[r2].content
    /\ \E row \in transcript_cache :
         KeyMatches(r2, row) /\ row.content = response[r2].content

\* ===================================================================== C6
\* C6: a request whose format (trimmed and lower-cased, as transcript()
\* compares it) is not "text" ends with the unsupported-format error 400 in
\* its first step: no store lookup, no throttle acquisition, no upstream
\* call, _last_yt_call_ts and the table unchanged.
C6_UnsupportedFormatFailsFast ==
  [][\A r \in Requests :
       (pc[r] = "idle" /\ pc'[r] # "idle" /\ fmt'[r] # S_text)
       => /\ pc'[r] = "done"
          /\ response'[r] = [status |-> 400]
          /\ n_get'[r] = 0 /\ n_throttle'[r] = 0
          /\ n_fetch'[r] = 0 /\ n_upsert'[r] = 0
          /\ yt_calls' = yt_calls
          /\ last_yt_call_ts' = last_yt_call_ts
          /\ transcript_cache' = transcript_cache]_vars

\* a request for format "srt" was rejected while the cache held rows
C6_Witness ==
  \E r \in Requests :
    /\ response[r].status = 400
    /\ fmt[r] = S_srt
    /\ transcript_cache # {}

\* ===================================================================== C7
\* every snippet consists of white space only (also when there is none)
AllBlank(snippets) ==
  \A i \in 1..Len(snippets) : \A j \in 1..Len(snippets[i]) : IsSpace(snippets[i][j])

\* C7: when the upstream call returns snippets whose joined, trimmed text is
\* empty (zero snippets included), the request ends with the empty-content
\* error 404, never upserts, and the table is exactly as before.
C7_EmptyTextIsNotCached ==
  [][\A r \in Requests : \A a \in NewCalls(r) :
       (a.res.ok /\ AllBlank(a.res.snippets))
       => /\ pc'[r] = "done"
          /\ response'[r] = [status |-> 404]
          /\ n_upsert'[r] = 0
          /\ transcript_cache' = transcript_cache]_vars

\* a forced refresh got zero snippets for a key that has a row
C7_Witness ==
  \E r \in Requests :
    /\ force[r]
    /\ response[r].status = 404
    /\ \E a \in CallsOf(r) : a.res.ok /\ a.res.snippets = <<>>
    /\ \E row \in transcript_cache : KeyMatches(r, row)

\* ===================================================================== C8
\* C8: when the upstream call fails, whatever the cause, the request ends in
\* the one upstream-fetch-failed outcome (429) carrying that cause, never
\* upserts, and the table is exactly as before.
C8_UpstreamFailureLeavesStore ==
  [][\A r \in Requests : \A a \in NewCalls(r) :
       ~a.res.ok
       => /\ pc'[r] = "done"
          /\ response'[r] = [status |-> 429, detail |-> a.res.cause]
          /\ n_upsert'[r] = 0
          /\ transcript_cache' = transcript_cache]_vars

\* a forced refresh failed upstream with "no transcript" for a key that has
\* a row
C8_Witness ==
  \E r \in Requests :
    /\ force[r]
    /\ response[r] = [status |-> 429, detail |-> "no_transcript"]
    /\ \E row \in transcript_cache : KeyMatches(r, row)

\* ===================================================================== C9
\* C9: in every reachable state each row's transcript_hash is the hash of
\* that row's content.
C9_HashMatchesContent ==
  \A row \in transcript_cache : row.transcript_hash = sha256_text(row.content)

\* two requests stored different contents for one key, one over the other
C9_Witness ==
  \E r1, r2 \in Requests :
    /\ r1 # r2
    /\ cleanup_response = NoResponse
    /\ IsMiss(r1) /\ IsMiss(r2)
    /\ video[r2] = video[r1] /\ langs_key[r2] = langs_key[r1] /\ fmt[r2] = fmt[r1]
    /\ response[r1].content # response[r2].content
    /\ \E row \in transcript_cache : KeyMatches(r1, row)

\* ==================================================================== C10
\* the rows of the table that have the key of request r
RowsForKeyOf(r, rows) == {row \in rows : KeyMatches(r, row)}

\* C10: the table never holds two rows with the same (video_id,
\* languages_key, format); and every committed upsert leaves exactly one row
\* for its key, holding that upsert's content and hash, so that after two
\* concurrent misses on one key the row is the one of the later commit.
C10_OneRowPerKeyLastWriterWins ==
  [][/\ \A row1, row2 \in transcript_cache' :
          (/\ row1.video_id = row2.video_id
           /\ row1.languages_key = row2.languages_key
           /\ row1.format = row2.format) => row1 = row2
     /\ \A r \in Requests :
          (pc[r] = "db_upsert" /\ pc'[r] = "done" /\ response'[r].status = 200)
          => /\ Cardinality(RowsForKeyOf(r, transcript_cache')) = 1
             /\ \A row \in RowsForKeyOf(r, transcript_cache') :
                  /\ row.content = content[r]
                  /\ row.transcript_hash = h[r]]_vars

\* two non-forced requests both missed on the same key, fetched different
\* texts and upserted; one row is left
C10_Witness ==
  \E r1, r2 \in Requests :
    /\ r1 # r2
    /\ cleanup_response = NoResponse
    /\ ~force[r1] /\ ~force[r2] /\ n_get[r1] = 1 /\ n_get[r2] = 1
    /\ IsMiss(r1) /\ IsMiss(r2)
    /\ video[r2] = video[r1] /\ langs_key[r2] = langs_key[r1] /\ fmt[r2] = fmt[r1]
    /\ response[r1].content # response[r2].content
    /\ Cardinality(RowsForKeyOf(r1, transcript_cache)) = 1


\* ==================================================================== C11
\* C11 (as claimed): for every key, an upsert to a key that has a row leaves
\* the row's fetched_at greater than or equal to its value before the
\* upsert, under any interleaving of concurrent upserts.
C11_FetchedAtNeverDecreases ==
  [][\A before \in transcript_cache : \A after \in transcript_cache' :
       (/\ before.video_id = after.video_id
        /\ before.languages_key = after.languages_key
        /\ before.format = after.format)
       => after.fetched_at >= before.fetched_at]_vars


\* ==================================================================== C12
\* C12: a purge with threshold keep_days removes exactly the rows whose
\* fetched_at is strictly older than now minus keep_days days, leaves every
\* other row (one whose fetched_at equals that instant included) as it was,
\* and returns the number of rows it removed.
C12_PurgeRemovesExactlyOlderRows ==
  [][LET cutoff == clock - cleanup_response'.keep_days * SECONDS_PER_DAY
     IN /\ transcript_cache' \subseteq transcript_cache
        /\ \A row \in transcript_cache :
             row \in transcript_cache' <=> row.fetched_at >= cutoff
        /\ cleanup_response'.deleted =
             Cardinality(transcript_cache) - Cardinality(transcript_cache')
    ]_<<transcript_cache, cleanup_response>>

\* a purge with keep_days=60 removed one row (90 days old) and left a row
\* exactly 60 days old and a younger one
C12_Witness ==
  /\ "keep_days" \in DOMAIN cleanup_response
  /\ cleanup_response.keep_days = 60
  /\ cleanup_response.deleted = 1
  /\ Cardinality(transcript_cache) = 2
  /\ \E row \in transcript_cache : row.fetched_at = clock - 60 * SECONDS_PER_DAY
  /\ \E row \in transcript_cache : row.fetched_at = clock - 30 * SECONDS_PER_DAY


\* ==================================================================== C13
\* the string is empty or white space only
IsBlank(str) == \A j \in 1..Len(str) : IsSpace(str[j])

\* the positions of L whose entry is not blank and, trimmed, differs from
\* every earlier trimmed entry
FirstOccurrences(L) ==
  {i \in 1..Len(L) :
     /\ ~IsBlank(L[i])
     /\ \A j \in 1..(i - 1) : Strip(L[j]) # Strip(L[i])}

\* C13: for every language list L the cleaned sequence has no blank entry
\* and no duplicate, lists the surviving (trimmed) entries in the order of
\* their first occurrence in L, and is the default pair ("pl", "en") when
\* nothing survives; the key is the cleaned sequence joined with "," and is
\* never empty.
C13_NormalizeCleansAndKeys ==
  nl_pc # "ready" =>
    LET L == nl_input
        c == nl_result.cleaned
        keep == FirstOccurrences(L)
    IN /\ \A k \in 1..Len(c) : c[k] # <<>> /\ ~IsBlank(c[k])
       /\ \A k1, k2 \in 1..Len(c) : k1 # k2 => c[k1] # c[k2]
       /\ IF keep = {}
          THEN c = <<S_pl, S_en>>
          ELSE /\ Len(c) = Cardinality(keep)
               /\ \A i \in keep :
                    c[1 + Cardinality({j \in keep : j < i})] = Strip(L[i])
       /\ nl_result.key = Join(c, <<",">>)
       /\ nl_result.key # <<>>

\* normalize_languages([" a", "b", "a"]) was computed: a padded entry and a
\* duplicate of it after another entry
C13_Witness ==
  /\ nl_pc # "ready"
  /\ nl_input = <<S_sp_a, S_b, S_a>>
  /\ nl_result.cleaned = <<S_a, S_b>>
  /\ nl_result.key = <<"a", ",", "b">>

\* ==================================================================== C14
\* C14: normalize_languages applied to the cleaned sequence it returned for
\* L returns the same cleaned sequence and the same key as for L.
C14_NormalizeIdempotentOnCleaned ==
  nl_pc = "reapplied" => nl_again = nl_result

\* the re-application was computed for an all-blank list, whose cleaned
\* sequence is the default pair
C14_Witness ==
  /\ nl_pc = "reapplied"
  /\ nl_input = <<S_blank, <<>>>>
  /\ nl_again.cleaned = <<S_pl, S_en>>


\* ==================================================================== C15
\* the upstream calls that failed with the given cause, their request ended
FailedWith(cause) ==
  {a \in yt_calls : ~a.res.ok /\ a.res.cause = cause /\ pc[a.rid] = "done"}

\* C15 (as claimed): an upstream "no transcript" cause (nothing found) and
\* an upstream "rate-limited" cause (temporarily unavailable) never give the
\* caller the same outcome class (HTTP status).
C15_NothingFoundDiffersFromRateLimited ==
  \A a1 \in FailedWith("no_transcript") : \A a2 \in FailedWith("rate_limited") :
    response[a1.rid].status # response[a2.rid].status

\* ==================================================================== C16
\* C16: a store failure during the lookup ends the request with an error
\* (500), not with a result: the request does not go on as a miss, so it
\* acquires no throttle, calls upstream zero times and upserts nothing; a
\* store failure during the upsert ends the request with the error too, not
\* with a fetched result.
C16_StoreFailureSurfaces ==
  \A e \in db_errors :
    /\ pc[e.rid] = "done"
    /\ response[e.rid] = [status |-> 500]
    /\ e.op = "get"
         => /\ n_throttle[e.rid] = 0
            /\ n_fetch[e.rid] = 0
            /\ n_upsert[e.rid] = 0
            /\ CallsOf(e.rid) = {}

\* one request's lookup failed and another's upsert failed
C16_Witness ==
  /\ \E e \in db_errors : e.op = "get"
  /\ \E e \in db_errors : e.op = "upsert" /\ n_fetch[e.rid] = 1

\* ==================================================================== C17
\* request r is inside yt_throttle
InThrottle(r) == pc[r] \in {"yt_wait", "yt_sleep", "yt_write"}

\* what C17 says of request r in one state
AtMostOnceInOrder(r) ==
  /\ n_get[r] <= 1 /\ n_throttle[r] <= 1 /\ n_fetch[r] <= 1 /\ n_upsert[r] <= 1
  /\ Cardinality(CallsOf(r)) = n_fetch[r]
  /\ n_fetch[r] = 1 => (n_throttle[r] = 1 /\ ~InThrottle(r) /\ pc[r] # "yt_now")
  /\ (n_upsert[r] = 1 \/ h[r] # Unset)
       => \E a \in CallsOf(r) : a.res.ok /\ ~AllBlank(a.res.snippets)
  /\ response[r].status \notin {0, 200} => pc[r] = "done"

\* C17: every request makes at most one store lookup, one throttle
\* acquisition, one upstream call and one upsert; the throttle acquisition
\* is over when the upstream call starts; the hash and the upsert come only
\* after the upstream call returned non-empty text; and a request that has
\* ended (with an error or a result) takes no further step.
C17_RequestStateMachine ==
  [][\A r \in Requests :
       /\ AtMostOnceInOrder(r)'
       /\ pc[r] = "done"
            => /\ pc'[r] = "done"
               /\ response'[r] = response[r]
               /\ n_get'[r] = n_get[r] /\ n_throttle'[r] = n_throttle[r]
               /\ n_fetch'[r] = n_fetch[r] /\ n_upsert'[r] = n_upsert[r]
               /\ CallsOf(r)' = CallsOf(r)]_vars

\* one request went through lookup, throttle, fetch and upsert once each,
\* and another ended at the failed fetch
C17_Witness ==
  \E r1, r2 \in Requests :
    /\ IsMiss(r1)
    /\ n_get[r1] = 1 /\ n_throttle[r1] = 1 /\ n_fetch[r1] = 1 /\ n_upsert[r1] = 1
    /\ response[r2].status = 429
    /\ n_fetch[r2] = 1 /\ n_upsert[r2] = 0

\* ==================================================================== C18
\* C18 (as claimed): two language lists with the same key have the same
\* cleaned sequence, so the key determines the list used for the fetch.
C18_KeyDeterminesCleaned ==
  nl_pc # "ready" =>
    \A other \in NormInputs :
      normalize_languages(other).key = nl_result.key
      => normalize_languages(other).cleaned = nl_result.cleaned


\* ==================================================================== C19
\* C19 (as claimed, the bound on one suspension): a call of yt_throttle
\* never sleeps longer than YT_MIN_INTERVAL_SECONDS, whatever the other
\* callers do.
C19_SuspendsAtMostInterval ==
  \A r \in Requests : pc[r] = "yt_sleep" => wait[r] <= YT_MIN_INTERVAL_SECONDS

====
